---- MODULE Spec2Model ----
(***************************************************************************)
(* A model of jedi/api/helpers.py: the stack completion resolver           *)
(* (get_possible_completion_types), the error-recovery import resolver     *)
(* (check_error_statements, importer_from_error_statement) and the partial *)
(* parser driver (get_stack_at_position).                                  *)
(*                                                                         *)
(* Python sequences are 0-based, TLA+ sequences 1-based: Python index i of *)
(* a list is position i + 1 here.  A Python exception is an outcome value. *)
(***************************************************************************)
EXTENDS Integers, Sequences, FiniteSets, TLC

VARIABLES
    pc,          \* which call is running or has just finished
    grammar,     \* get_possible_completion_types: the grammar table
    stack,       \* get_possible_completion_types: the parser stack snapshot
    completion,  \* get_possible_completion_types: what the call produced
    module,      \* check_error_statements: module.error_statements
    pos,         \* the cursor position, <<line, column>>
    import_ret,  \* what check_error_statements / importer_from_error_statement returned
    loc,         \* get_stack_at_position: what the module tree answered
    code,        \* get_stack_at_position: the sliced snippet, "" or "src"
    tokens,      \* get_stack_at_position: the tokenizer's stream for `code`
    gen_idx,     \* tokenize_without_endmarker: tokens already read from `tokens`
    fed,         \* the tokens the parser has consumed, in order
    snapshot,    \* the parser stack get_stack_at_position returned
    outcome      \* get_stack_at_position: how the call ended

vars == <<pc, grammar, stack, completion, module, pos, import_ret,
          loc, code, tokens, gen_idx, fed, snapshot, outcome>>

Range(f) == {f[x] : x \in DOMAIN f}

\* dict((v, k) for k, v in d.items())
Inverse(d) == [v \in Range(d) |-> CHOOSE k \in DOMAIN d : d[k] = v]

-----------------------------------------------------------------------------
(* Bounds of the model.                                                    *)

MaxStack == 2
MaxArcs == 2
MaxDots == 2
MaxNames == 2
MaxStatements == 2
MaxTokens == 3

-----------------------------------------------------------------------------
(* The grammar table.  Label index 0 is the accepting arc; label 1 is a    *)
(* token kind, label 2 a keyword, labels 3 and 4 the nonterminals 256 and  *)
(* 257.  The FIRST sets of the two nonterminals are the input that varies; *)
(* 257 may occur in the FIRST set of 256 and not the other way round, so   *)
(* no table has a cyclic FIRST set.                                        *)

FirstNonterminal == 256

GrammarLabels == << <<0, "EMPTY">>, <<1, "">>, <<1, "if">>,
                    <<FirstNonterminal, "">>, <<FirstNonterminal + 1, "">> >>

LabelIndexes == 0 .. (Len(GrammarLabels) - 1)

NonEmptySubsets(S) == SUBSET S \ {{}}

\* states[state] of a dfa is a list of arcs (label_index, new_state)
ArcLabels(arcs) == {arcs[i][1] : i \in DOMAIN arcs}

ArcLists ==
    {a \in UNION {[1 .. n -> LabelIndexes \X {0}] : n \in 1 .. MaxArcs} :
        \A i, j \in DOMAIN a : a[i][1] = a[j][1] => i = j}

GrammarTable(first256, first257) ==
    [labels   |-> GrammarLabels,
     keywords |-> [k \in {"if"} |-> 2],
     tokens   |-> [k \in {"NAME"} |-> 1],
     dfas     |-> [t \in {FirstNonterminal, FirstNonterminal + 1} |->
                     [states |-> << >>,
                      first  |-> IF t = FirstNonterminal THEN first256 ELSE first257]]]

Grammars ==
    {GrammarTable(f6, f7) : f6 \in NonEmptySubsets({1, 2, 4}),
                            f7 \in NonEmptySubsets({1, 2})}

\* a stack frame (dfa, state, node) whose dfa has the single state 0
Frame(arcs) == [dfa   |-> [states |-> <<arcs>>, first |-> {}],
                state |-> 0,
                node  |-> <<FirstNonterminal, << >> >>]

Stacks == UNION {[1 .. n -> {Frame(a) : a \in ArcLists}] : n \in 1 .. MaxStack}

-----------------------------------------------------------------------------
(* get_possible_completion_types.  The two result lists and a raised       *)
(* exception travel through the recursion in one record, together with two *)
(* traces the code does not keep: the nonterminals whose FIRST set         *)
(* add_results expanded, and the stack positions scan_stack read, both in  *)
(* order.                                                                  *)

EmptyCompletion ==
    [keywords |-> << >>, grammar_labels |-> << >>, expanded |-> << >>,
     scanned |-> << >>, raised |-> "none"]

Min(S) == CHOOSE x \in S : \A y \in S : x <= y

RECURSIVE add_results(_, _, _)
RECURSIVE add_first(_, _, _)

\* for first_label_index in itsfirst.keys(): add_results(first_label_index)
add_first(g, acc, keys) ==
    IF keys = {} THEN acc
    ELSE LET k == Min(keys)
         IN  add_first(g, add_results(g, acc, k), keys \ {k})

add_results(g, acc, label_index) ==
    LET inversed_keywords == Inverse(g.keywords)
        inversed_tokens == Inverse(g.tokens)
    IN  IF label_index \in DOMAIN inversed_tokens
        THEN [acc EXCEPT !.grammar_labels =
                             Append(@, inversed_tokens[label_index])]
        ELSE IF label_index \in DOMAIN inversed_keywords
        THEN [acc EXCEPT !.keywords = Append(@, inversed_keywords[label_index])]
        ELSE LET t == g.labels[label_index + 1][1]
                 itsfirst == g.dfas[t].first
             IN  add_first(g, [acc EXCEPT !.expanded = Append(@, t)], itsfirst)

\* stack[index] for a negative Python index; 0 when it is out of range
StackPosition(stk, index) ==
    IF -index <= Len(stk) THEN Len(stk) + index + 1 ELSE 0

RECURSIVE scan_stack(_, _, _, _)
RECURSIVE scan_arcs(_, _, _, _, _)

\* for label_index, new_state in arcs: ...
scan_arcs(g, stk, index, acc, arcs) ==
    IF arcs = << >> \/ acc.raised # "none" THEN acc
    ELSE LET label_index == Head(arcs)[1]
             after == IF label_index = 0
                      THEN scan_stack(g, stk, index - 1, acc)
                      ELSE add_results(g, acc, label_index)
         IN  scan_arcs(g, stk, index, after, Tail(arcs))

scan_stack(g, stk, index, acc) ==
    LET p == StackPosition(stk, index)
    IN  IF p = 0 THEN [acc EXCEPT !.raised = "IndexError"]
        ELSE LET frame == stk[p]
                 arcs == frame.dfa.states[frame.state + 1]
             IN  scan_arcs(g, stk, index,
                           [acc EXCEPT !.scanned = Append(@, p)], arcs)

get_possible_completion_types(g, stk) == scan_stack(g, stk, -1, EmptyCompletion)

-----------------------------------------------------------------------------
(* Positions and tree nodes.  A position is <<line, column>>, ordered as   *)
(* Python orders tuples.  A leaf is a Name, an Operator or a Keyword; a    *)
(* node of kind "node" is a pt.Node with children.                         *)

PosLT(a, b) == a[1] < b[1] \/ (a[1] = b[1] /\ a[2] < b[2])
PosLE(a, b) == a = b \/ PosLT(a, b)

\* Operator.__eq__ / Keyword.__eq__: a leaf of these classes equals a string
\* when its value does; a Name or a Node never equals a string
Eq(node, s) == node.kind \in {"operator", "keyword"} /\ node.value = s

Item(text, kind, gap) == [text |-> text, kind |-> kind, gap |-> gap]

\* the leaves of a line of source: each token starts `gap` columns after
\* the end of the one before it and is as wide as its text
RECURSIVE Layout(_, _, _)
Layout(items, line, col) ==
    IF items = << >> THEN << >>
    ELSE LET it == Head(items)
             s == col + it.gap
         IN  <<[kind |-> it.kind, type |-> it.kind, value |-> it.text,
                start_pos |-> <<line, s>>,
                end_pos |-> <<line, s + Len(it.text)>>,
                children |-> << >>]>>
             \o Layout(Tail(items), line, s + Len(it.text))

DottedNameNode(children) ==
    [kind |-> "node", type |-> "dotted_name", value |-> "",
     start_pos |-> children[1].start_pos,
     end_pos |-> children[Len(children)].end_pos,
     children |-> children]

NamePool == <<"os", "path", "x">>
NameAt(i) == NamePool[((i - 1) % Len(NamePool)) + 1]

\* NAME ('.' NAME)* with n names, and a '.' after the last one if trailing
PathItems(n, trailing, gap) ==
    [i \in 1 .. (2 * n - 1 + (IF trailing THEN 1 ELSE 0)) |->
        IF i % 2 = 1 THEN Item(NameAt((i + 1) \div 2), "name", IF i = 1 THEN gap ELSE 0)
        ELSE Item(".", "operator", 0)]

DotItems(dots) ==
    [i \in DOMAIN dots |-> Item(dots[i], "operator", IF i = 1 THEN 1 ELSE 0)]

SubSeqFrom(s, i) == SubSeq(s, i, Len(s))

ErrorStatement(stk) ==
    LET first == stk[1][2][1]
        lastNodes == stk[Len(stk)][2]
        last == lastNodes[Len(lastNodes)]
    IN  [stack |-> stk, first_type |-> stk[1][1],
         start_pos |-> first.start_pos, end_pos |-> last.end_pos]

\* 'import' dotted_name, cut off by a syntax error: the import_name rule
\* holds the keyword, the dotted_name rule still open above it holds the path
ImportNameStatement(line, n, trailing) ==
    LET leaves == Layout(<<Item("import", "keyword", 0)>>
                         \o (IF n = 0 THEN << >> ELSE PathItems(n, trailing, 1)),
                         line, 0)
    IN  ErrorStatement(
            << <<"import_name", <<leaves[1]>> >> >>
            \o (IF n = 0 THEN << >>
                ELSE << <<"dotted_name", SubSeqFrom(leaves, 2)>> >>))

\* 'from' ('.' | '...')* [dotted_name] ['import' NAME*], cut off by a syntax
\* error.  A path the parser finished is a child of the import_from rule (a
\* Name when it is one name long, else a dotted_name Node); a path still
\* being matched (open) is the dotted_name rule above import_from.
ImportFromStatement(line, dots, n, trailing, open, has_import, n_imported) ==
    LET nd == Len(dots)
        np == 2 * n - 1 + (IF trailing THEN 1 ELSE 0)
        pathItems == IF n = 0 THEN << >>
                     ELSE PathItems(n, trailing, IF nd = 0 THEN 1 ELSE 0)
        importItems == IF has_import
                       THEN <<Item("import", "keyword", 1)>>
                            \o [i \in 1 .. n_imported |->
                                   Item(NameAt(n + i), "name", 1)]
                       ELSE << >>
        leaves == Layout(<<Item("from", "keyword", 0)>> \o DotItems(dots)
                         \o pathItems \o importItems, line, 0)
        head == SubSeq(leaves, 1, 1 + nd)
        path == SubSeq(leaves, 2 + nd, 1 + nd + Len(pathItems))
        rest == SubSeqFrom(leaves, 2 + nd + Len(pathItems))
        child == IF n = 0 \/ open THEN << >>
                 ELSE IF n = 1 THEN path
                 ELSE <<DottedNameNode(path)>>
    IN  ErrorStatement(
            << <<"import_from", head \o child \o rest>> >>
            \o (IF n > 0 /\ open THEN << <<"dotted_name", path>> >> ELSE << >>))

\* a statement that is no import: 'x ='
OtherStatement(line) ==
    ErrorStatement(<< <<"expr_stmt",
                       Layout(<<Item("x", "name", 0), Item("=", "operator", 1)>>,
                              line, 0)>> >>)

DotSeqs == UNION {[1 .. k -> {".", "..."}] : k \in 0 .. MaxDots}

ImportNameStatements(line) ==
    {ImportNameStatement(line, n, t) :
        <<n, t>> \in {x \in (0 .. MaxNames) \X BOOLEAN : x[1] > 0 \/ ~x[2]}}

ImportFromShapes ==
    {x \in DotSeqs \X (0 .. MaxNames) \X BOOLEAN \X BOOLEAN \X BOOLEAN \X (0 .. 1) :
        LET dots == x[1]
            n == x[2]
            trailing == x[3]
            open == x[4]
            has_import == x[5]
            n_imported == x[6]
        IN  /\ trailing => (n > 0 /\ open)
            /\ open => (n > 0 /\ ~has_import)
            /\ has_import => (n > 0 \/ Len(dots) > 0)
            /\ n_imported > 0 => has_import}

ImportFromStatements(line) ==
    {ImportFromStatement(line, x[1], x[2], x[3], x[4], x[5], x[6]) :
        x \in ImportFromShapes}

ErrorStatements(line) ==
    ImportNameStatements(line) \cup ImportFromStatements(line) \cup {OtherStatement(line)}

-----------------------------------------------------------------------------
(* importer_from_error_statement and check_error_statements.  A result is  *)
(* the tuple (names, level, only_modules, unfinished_dotted); names_none   *)
(* says that names is None and not a list.                                 *)

NoCompletions ==
    [names_none |-> TRUE, names |-> << >>, level |-> 0,
     only_modules |-> FALSE, unfinished_dotted |-> FALSE]

InitialImport ==
    [names_none |-> FALSE, names |-> << >>, level |-> 0,
     only_modules |-> TRUE, unfinished_dotted |-> FALSE]

\* children[::2]
EvenChildren(children) ==
    [i \in 1 .. ((Len(children) + 1) \div 2) |-> children[2 * i - 1]]

\* a variant that takes every child, the '.' separators too
check_dotted_every_child(children, p) ==
    SelectSeq(children, LAMBDA name : PosLE(name.start_pos, p))

check_dotted(children, p) ==
    SelectSeq(EvenChildren(children), LAMBDA name : PosLE(name.start_pos, p))

\* a variant that stops only at a child that starts after pos
AfterCursor(node, p) == PosLT(p, node.start_pos)

\* if node.start_pos >= pos: break
AtOrAfterCursor(node, p) == PosLE(p, node.start_pos)

\* a variant that looks for a '.' anywhere in the rule
ContainsDot(nodes) == \E i \in DOMAIN nodes : Eq(nodes[i], ".")

\* nodes[-1] == '.' (a dotted_name rule is pushed for its first NAME, so
\* its nodes are never empty)
EndsInDot(nodes) == Eq(nodes[Len(nodes)], ".")

\* a variant with both comparisons strict
InsideImportKeyword(nodes, p) ==
    PosLT(nodes[1].start_pos, p) /\ PosLT(p, nodes[1].end_pos)

\* nodes[0].start_pos <= pos <= nodes[0].end_pos
OnImportKeyword(nodes, p) ==
    PosLE(nodes[1].start_pos, p) /\ PosLE(p, nodes[1].end_pos)

RECURSIVE import_from_nodes(_, _, _)
import_from_nodes(nodes, p, acc) ==
    IF nodes = << >> THEN acc
    ELSE LET node == Head(nodes)
         IN  IF AtOrAfterCursor(node, p) THEN acc
             ELSE import_from_nodes(Tail(nodes), p,
                    IF node.kind = "node" /\ node.type = "dotted_name"
                    THEN [acc EXCEPT !.names = @ \o check_dotted(node.children, p)]
                    ELSE IF Eq(node, ".") \/ Eq(node, "...")
                    THEN [acc EXCEPT !.level = @ + Len(node.value)]
                    ELSE IF node.kind = "name"
                    THEN [acc EXCEPT !.names = Append(@, node)]
                    ELSE IF Eq(node, "import")
                    THEN [acc EXCEPT !.only_modules = FALSE]
                    ELSE acc)

RECURSIVE importer_rules(_, _, _)
importer_rules(stk, p, acc) ==
    IF stk = << >> THEN acc
    ELSE LET typ == Head(stk)[1]
             nodes == Head(stk)[2]
         IN  IF typ = "dotted_name"
             THEN importer_rules(Tail(stk), p,
                    [acc EXCEPT !.names = @ \o check_dotted(nodes, p),
                                !.unfinished_dotted = @ \/ EndsInDot(nodes)])
             ELSE IF typ = "import_name"
             THEN IF OnImportKeyword(nodes, p) THEN NoCompletions
                  ELSE importer_rules(Tail(stk), p, acc)
             ELSE IF typ = "import_from"
             THEN importer_rules(Tail(stk), p, import_from_nodes(nodes, p, acc))
             ELSE importer_rules(Tail(stk), p, acc)

importer_from_error_statement(error_statement, p) ==
    importer_rules(error_statement.stack, p, InitialImport)

\* error_statement.first_type in ('import_from', 'import_name')
\*     and error_statement.start_pos < pos <= error_statement.end_pos
Applicable(error_statement, p) ==
    /\ error_statement.first_type \in {"import_from", "import_name"}
    /\ PosLT(error_statement.start_pos, p)
    /\ PosLE(p, error_statement.end_pos)

RECURSIVE check_error_statements(_, _)
check_error_statements(error_statements, p) ==
    IF error_statements = << >> THEN NoCompletions
    ELSE IF Applicable(Head(error_statements), p)
    THEN importer_from_error_statement(Head(error_statements), p)
    ELSE check_error_statements(Tail(error_statements), p)

\* the modules of check_error_statements: statement i is on line i
SampleStatements(line) ==
    {ImportNameStatement(line, 0, FALSE),
     ImportNameStatement(line, 1, TRUE),
     ImportFromStatement(line, <<"...">>, 0, FALSE, FALSE, FALSE, 0),
     ImportFromStatement(line, << >>, 1, FALSE, FALSE, TRUE, 1),
     OtherStatement(line)}

Modules ==
    UNION {{m \in [1 .. n -> UNION {SampleStatements(l) : l \in 1 .. n}] :
               \A i \in 1 .. n : m[i] \in SampleStatements(i)} :
           n \in 0 .. MaxStatements}

Max(S) == CHOOSE x \in S : \A y \in S : y <= x

\* every column from the start of a line to one past the longest statement
Positions(m) ==
    (1 .. Max({1, Len(m)})) \X
    (0 .. (1 + Max({0} \cup {m[i].end_pos[2] : i \in DOMAIN m})))

-----------------------------------------------------------------------------
(* get_stack_at_position, the position-locating phase.  The module tree is *)
(* outside this file; loc holds what its methods answered, "unused" for a  *)
(* method the call never reached.  A unit is what such a method returns: a *)
(* statement or leaf with its type and whether pos <= its start_pos, or    *)
(* None.                                                                   *)

Unit(type, at_or_after) == [type |-> type, at_or_after |-> at_or_after]
NoneUnit == Unit("None", FALSE)
Unused == Unit("unused", FALSE)

UnitTypes == {"indent", "dedent", "expr_stmt", "string", "error_leaf"}
Units == {Unit(t, b) : t \in UnitTypes, b \in BOOLEAN}

\* user_stmt before line 84: the statement, or the leaf when there is none
FirstUnit(l) == IF l.stmt = NoneUnit THEN l.leaf ELSE l.stmt

\* user_stmt is not None and user_stmt.type in ('indent', 'dedent')
OnIndent(l) == l.stmt.type \in {"indent", "dedent"}

\* user_stmt.type == 'error_leaf' or user_stmt.type == 'string'
Unparsable(user_stmt) == user_stmt.type \in {"error_leaf", "string"}

\* lines 77-95: "code" with the unit to slice from, or the exception raised.
\* An attribute of None is an AttributeError.
Locate(l) ==
    IF OnIndent(l) THEN [result |-> "code", user_stmt |-> l.stmt]
    ELSE LET u1 == FirstUnit(l)
         IN  IF u1 = NoneUnit
             THEN [result |-> "AttributeError", user_stmt |-> u1]
             ELSE LET u2 == IF u1.at_or_after /\ l.prev = "leaf"
                            THEN l.prev_stmt ELSE u1
                  IN  IF u2 = NoneUnit
                      THEN [result |-> "AttributeError", user_stmt |-> u2]
                      ELSE IF Unparsable(u2)
                      THEN [result |-> "OnErrorLeaf", user_stmt |-> u2]
                      ELSE [result |-> "code", user_stmt |-> u2]

\* the answers of the module tree, method by method as the call reaches them
LocInputs ==
    {l \in [stmt : Units \cup {NoneUnit},
            leaf : Units \cup {NoneUnit, Unused},
            prev : {"IndexError", "leaf", "unused"},
            prev_stmt : {Unit(t, FALSE) : t \in UnitTypes} \cup {NoneUnit, Unused}] :
        /\ (l.leaf = Unused) <=> (l.stmt # NoneUnit)
        /\ (l.prev = "unused") <=>
               (OnIndent(l) \/ FirstUnit(l) = NoneUnit \/ ~FirstUnit(l).at_or_after)
        /\ (l.prev_stmt = Unused) <=> (l.prev # "leaf")}

-----------------------------------------------------------------------------
(* get_stack_at_position, the partial parse.  The tokenizer's stream ends  *)
(* with its one ENDMARKER.  The parser (outside this file) pulls a token   *)
(* from tokenize_without_endmarker, consumes it, and pulls the next; its   *)
(* stack is a function of the tokens it consumed, so the snapshot is the   *)
(* sequence fed.                                                           *)

TokenKinds == {"NAME", "NEWLINE", "DEDENT"}

TokenStreams ==
    {t \o <<"ENDMARKER">> : t \in UNION {[1 .. n -> TokenKinds] : n \in 0 .. MaxTokens}}

\* what p.parse can do with a token it pulled: consume it and pull the
\* next, consume it and return, or raise
ParserResults == {"consumed", "returned", "raised"}

\* the branches of the loop body of tokenize_without_endmarker
IsEndMarker(token_) == token_ = "ENDMARKER"
\* a variant that yields every token that is no ENDMARKER
NothingDropped(token_) == FALSE
IsDropped(token_) == token_ = "DEDENT"

\* one next() of the generator, having read idx tokens: it reads on until
\* it raises EndMarkerReached, yields a token, or is exhausted
RECURSIVE generator_next(_, _)
generator_next(toks, idx) ==
    IF idx >= Len(toks) THEN [kind |-> "StopIteration", idx |-> idx, token_ |-> ""]
    ELSE LET token_ == toks[idx + 1]
         IN  IF IsEndMarker(token_)
             THEN [kind |-> "EndMarkerReached", idx |-> idx + 1, token_ |-> token_]
             ELSE IF IsDropped(token_)
             THEN generator_next(toks, idx + 1)
             ELSE [kind |-> "yield", idx |-> idx + 1, token_ |-> token_]

-----------------------------------------------------------------------------
(* The state machine: one call at a time, from "idle" and back.            *)

NoLoc == [stmt |-> Unused, leaf |-> Unused, prev |-> "unused", prev_stmt |-> Unused]

Init ==
    /\ pc = "idle"
    /\ grammar = GrammarTable({1}, {1})
    /\ stack = << >>
    /\ completion = EmptyCompletion
    /\ module = << >>
    /\ pos = <<1, 0>>
    /\ import_ret = NoCompletions
    /\ loc = NoLoc
    /\ code = ""
    /\ tokens = << >>
    /\ gen_idx = 0
    /\ fed = << >>
    /\ snapshot = << >>
    /\ outcome = "none"

StackVars == <<loc, code, tokens, gen_idx, fed, snapshot, outcome>>
ImportVars == <<module, pos, import_ret>>
CompletionVars == <<grammar, stack, completion>>

CallGetPossibleCompletionTypes ==
    /\ pc = "idle"
    /\ \E g \in Grammars, stk \in Stacks :
          /\ grammar' = g
          /\ stack' = stk
          /\ completion' = get_possible_completion_types(g, stk)
    /\ pc' = "completion_returned"
    /\ UNCHANGED <<ImportVars, StackVars>>

CallImporterFromErrorStatement ==
    /\ pc = "idle"
    /\ \E es \in ErrorStatements(1) :
          \E p \in Positions(<<es>>) :
             /\ module' = <<es>>
             /\ pos' = p
             /\ import_ret' = importer_from_error_statement(es, p)
    /\ pc' = "importer_returned"
    /\ UNCHANGED <<CompletionVars, StackVars>>

CallCheckErrorStatements ==
    /\ pc = "idle"
    /\ \E m \in Modules :
          \E p \in Positions(m) :
             /\ module' = m
             /\ pos' = p
             /\ import_ret' = check_error_statements(m, p)
    /\ pc' = "check_returned"
    /\ UNCHANGED <<CompletionVars, StackVars>>

\* lines 77-123: locate, slice, and hand the generator to the parser
CallGetStackAtPosition ==
    /\ pc = "idle"
    /\ \E l \in LocInputs :
          /\ loc' = l
          /\ IF Locate(l).result = "code"
             THEN /\ \E c \in (IF OnIndent(l) THEN {""} ELSE {"", "src"}) :
                        /\ code' = c
                        /\ \E t \in (IF c = "" THEN {<<"ENDMARKER">>} ELSE TokenStreams) :
                              tokens' = t
                  /\ pc' = "parsing"
                  /\ outcome' = "none"
             ELSE /\ code' = code
                  /\ tokens' = tokens
                  /\ pc' = "stack_returned"
                  /\ outcome' = Locate(l).result
    /\ UNCHANGED <<gen_idx, fed, snapshot, CompletionVars, ImportVars>>

\* the parser pulls a token and the generator raises EndMarkerReached:
\* except EndMarkerReached: return Stack(p.pgen_parser.stack)
EndMarkerReached ==
    /\ pc = "parsing"
    /\ generator_next(tokens, gen_idx).kind = "EndMarkerReached"
    /\ gen_idx' = generator_next(tokens, gen_idx).idx
    /\ snapshot' = fed
    /\ outcome' = "Stack"
    /\ pc' = "stack_returned"
    /\ UNCHANGED <<loc, code, tokens, fed, CompletionVars, ImportVars>>

\* the parser pulls a token, consumes it and goes on
ParserShifts ==
    /\ pc = "parsing"
    /\ "consumed" \in ParserResults
    /\ generator_next(tokens, gen_idx).kind = "yield"
    /\ gen_idx' = generator_next(tokens, gen_idx).idx
    /\ fed' = Append(fed, generator_next(tokens, gen_idx).token_)
    /\ UNCHANGED <<pc, loc, code, tokens, snapshot, outcome, CompletionVars, ImportVars>>

\* the parser pulls a token, consumes it and p.parse returns: the function
\* falls off its end and returns None
ParserReturns ==
    /\ pc = "parsing"
    /\ "returned" \in ParserResults
    /\ generator_next(tokens, gen_idx).kind = "yield"
    /\ gen_idx' = generator_next(tokens, gen_idx).idx
    /\ fed' = Append(fed, generator_next(tokens, gen_idx).token_)
    /\ outcome' = "None"
    /\ pc' = "stack_returned"
    /\ UNCHANGED <<loc, code, tokens, snapshot, CompletionVars, ImportVars>>

\* the parser pulls a token and raises on it: the exception passes through
ParserRaises ==
    /\ pc = "parsing"
    /\ "raised" \in ParserResults
    /\ generator_next(tokens, gen_idx).kind = "yield"
    /\ gen_idx' = generator_next(tokens, gen_idx).idx
    /\ outcome' = "ParseError"
    /\ pc' = "stack_returned"
    /\ UNCHANGED <<loc, code, tokens, fed, snapshot, CompletionVars, ImportVars>>

\* the caller takes the result; the next call starts afresh
Return ==
    /\ pc \in {"completion_returned", "importer_returned", "check_returned",
               "stack_returned"}
    /\ pc' = "idle"
    /\ grammar' = GrammarTable({1}, {1})
    /\ stack' = << >>
    /\ completion' = EmptyCompletion
    /\ module' = << >>
    /\ pos' = <<1, 0>>
    /\ import_ret' = NoCompletions
    /\ loc' = NoLoc
    /\ code' = ""
    /\ tokens' = << >>
    /\ gen_idx' = 0
    /\ fed' = << >>
    /\ snapshot' = << >>
    /\ outcome' = "none"

NextCompletion == CallGetPossibleCompletionTypes \/ Return
NextImport == CallImporterFromErrorStatement \/ CallCheckErrorStatements \/ Return
NextStack ==
    \/ CallGetStackAtPosition
    \/ EndMarkerReached
    \/ ParserShifts
    \/ ParserReturns
    \/ ParserRaises
    \/ Return

Next == NextCompletion \/ NextImport \/ NextStack

SpecCompletion == Init /\ [][NextCompletion]_vars
SpecImport == Init /\ [][NextImport]_vars
SpecStack == Init /\ [][NextStack]_vars
Spec == Init /\ [][Next]_vars

-----------------------------------------------------------------------------
(* Properties of get_possible_completion_types (SpecCompletion).           *)

NoDuplicates(s) == \A i, j \in DOMAIN s : s[i] = s[j] => i = j

Accepting(frame) == 0 \in ArcLabels(frame.dfa.states[frame.state + 1])

\* the frames from the top down to the first one that is not accepting
ExpectedScan(stk) ==
    LET n == Len(stk)
        stops == {i \in 1 .. n : ~Accepting(stk[i])}
        low == IF stops = {} THEN 1 ELSE Max(stops)
    IN  [i \in 1 .. (n - low + 1) |-> n - i + 1]

\* C1: a call that returns has expanded the FIRST set of no nonterminal id
\* more than once (every grammar table of the model is free of cyclic FIRST
\* sets and every stack is non-empty).
C1_NeverRevisitsNonterminal ==
    (pc = "completion_returned" /\ completion.raised = "none")
        => NoDuplicates(completion.expanded)

\* C2: the walk reads the frames from the top down to the first frame that
\* is not accepting, or to the bottom frame when every frame is accepting,
\* and then the call returns normally.
C2_WalkReturnsNormally ==
    pc = "completion_returned"
        => /\ completion.raised = "none"
           /\ completion.scanned = ExpectedScan(stack)

\* C3: the returned keywords and the returned grammar labels each hold no
\* value twice.
C3_NoDuplicateResults ==
    (pc = "completion_returned" /\ completion.raised = "none")
        => /\ NoDuplicates(completion.keywords)
           /\ NoDuplicates(completion.grammar_labels)

-----------------------------------------------------------------------------
(* Properties of importer_from_error_statement and check_error_statements  *)
(* (SpecImport).  They are stated on the statement and the position alone, *)
(* with the comparisons written out.                                       *)

RECURSIVE SumSeq(_)
SumSeq(s) == IF s = << >> THEN 0 ELSE Head(s) + SumSeq(Tail(s))

RECURSIVE Flatten(_)
Flatten(nodes) ==
    IF nodes = << >> THEN << >>
    ELSE (IF Head(nodes).kind = "node" THEN Head(nodes).children ELSE <<Head(nodes)>>)
         \o Flatten(Tail(nodes))

RECURSIVE RuleLeaves(_)
RuleLeaves(stk) ==
    IF stk = << >> THEN << >> ELSE Flatten(Head(stk)[2]) \o RuleLeaves(Tail(stk))

\* the nodes of the first rule of the given type, << >> if there is none
RuleNodes(es, typ) ==
    LET at == {i \in DOMAIN es.stack : es.stack[i][1] = typ}
    IN  IF at = {} THEN << >> ELSE es.stack[Min(at)][2]

IsDots(node) == node.kind = "operator" /\ node.value \in {".", "..."}

\* the '.' and '...' children of the import_from rule
LeadingDots(es) == SelectSeq(RuleNodes(es, "import_from"), IsDots)

NameLeaves(es) == SelectSeq(RuleLeaves(es.stack), LAMBDA n : n.kind = "name")

StartsBefore(n) == n.start_pos[1] < pos[1]
                   \/ (n.start_pos[1] = pos[1] /\ n.start_pos[2] < pos[2])
StartsAtOrBefore(n) == StartsBefore(n) \/ n.start_pos = pos

\* the children of the import_from rule scanned before the loop stops
Scanned(es) ==
    LET nodes == RuleNodes(es, "import_from")
        stop == {i \in DOMAIN nodes : ~StartsBefore(nodes[i])}
    IN  SubSeq(nodes, 1, IF stop = {} THEN Len(nodes) ELSE Min(stop) - 1)

\* the names among the given children of an import_from rule: a Name child,
\* and the even children of a dotted_name child that start at or before pos
RECURSIVE NamesAmong(_)
NamesAmong(nodes) ==
    IF nodes = << >> THEN << >>
    ELSE LET n == Head(nodes)
         IN  (IF n.kind = "name" THEN <<n>>
              ELSE IF n.kind = "node"
              THEN SelectSeq([i \in 1 .. ((Len(n.children) + 1) \div 2) |->
                                 n.children[2 * i - 1]], StartsAtOrBefore)
              ELSE << >>)
             \o NamesAmong(Tail(nodes))

\* pos lies in the span of the 'import' keyword of an import_name rule
CursorOnImport(es) ==
    LET nodes == RuleNodes(es, "import_name")
    IN  /\ nodes # << >>
        /\ StartsAtOrBefore(nodes[1])
        /\ (pos = nodes[1].end_pos \/ PosLT(pos, nodes[1].end_pos))

Values(ns) == [i \in DOMAIN ns |-> ns[i].value]

\* C4 as stated: level + len(names) is at most the number of dotted-path
\* tokens (leading '.' and '...' tokens, name tokens) that start before pos.
C4_LevelPlusNamesWithinTokens ==
    (pc = "importer_returned" /\ ~import_ret.names_none)
        => import_ret.level + Len(import_ret.names)
              <= Len(SelectSeq(LeadingDots(module[1]), StartsBefore))
                 + Len(SelectSeq(NameLeaves(module[1]), StartsBefore))

\* C4 as amended: level + len(names) is at most the number of leading dot
\* characters (one for a '.', three for a '...') that start before pos plus
\* the number of name tokens of the statement that start at or before pos.
C4_LevelPlusNamesWithinDotsAndNames ==
    (pc = "importer_returned" /\ ~import_ret.names_none)
        => import_ret.level + Len(import_ret.names)
              <= SumSeq([i \in DOMAIN SelectSeq(LeadingDots(module[1]), StartsBefore) |->
                           Len(SelectSeq(LeadingDots(module[1]), StartsBefore)[i].value)])
                 + Len(SelectSeq(NameLeaves(module[1]), StartsAtOrBefore))

C4_Witness ==
    /\ pc = "importer_returned"
    /\ import_ret.level = 4
    /\ Len(import_ret.names) = 2
    /\ Len(NameLeaves(module[1])) > 2

\* C5: for an import_from rule the scan stops at the first child that starts
\* at or after pos; level is 1 for each '.' and 3 for each '...' scanned
\* before the stop, only_modules is false exactly when 'import' is among
\* them, and the names of the rule are the names among them (the names of a
\* dotted_name rule above it follow them).
C5_ImportFromScan ==
    (pc = "importer_returned" /\ module[1].first_type = "import_from")
        => LET scanned == Scanned(module[1])
               dots == SelectSeq(scanned, IsDots)
           IN  /\ import_ret.level =
                      SumSeq([i \in DOMAIN dots |->
                                 IF dots[i].value = "." THEN 1 ELSE 3])
               /\ import_ret.only_modules =
                      ~(\E i \in DOMAIN scanned :
                           scanned[i].kind = "keyword" /\ scanned[i].value = "import")
               /\ import_ret.names =
                      NamesAmong(scanned)
                      \o SelectSeq([i \in 1 .. ((Len(RuleNodes(module[1], "dotted_name")) + 1) \div 2) |->
                                       RuleNodes(module[1], "dotted_name")[2 * i - 1]],
                                   StartsAtOrBefore)

C5_Witness ==
    /\ pc = "importer_returned"
    /\ module[1].first_type = "import_from"
    /\ import_ret.level = 4
    /\ import_ret.only_modules
    /\ \E i \in DOMAIN module[1].stack[1][2] :
          /\ Eq(module[1].stack[1][2][i], "import")
          /\ module[1].stack[1][2][i].start_pos = pos

\* what the dotted_name rule of the statement gives: its children at even
\* positions that start at or before pos, and whether its last child is '.'
DottedNames(es) ==
    LET nodes == RuleNodes(es, "dotted_name")
    IN  SelectSeq([i \in 1 .. ((Len(nodes) + 1) \div 2) |-> nodes[2 * i - 1]],
                  StartsAtOrBefore)

LastIsDot(es) ==
    LET nodes == RuleNodes(es, "dotted_name")
    IN  nodes[Len(nodes)].kind = "operator" /\ nodes[Len(nodes)].value = "."

HasDottedName(es) == RuleNodes(es, "dotted_name") # << >>

ImportOsDot == ImportNameStatement(1, 1, TRUE)

\* C6 as stated: with a dotted_name rule in the stack the names returned are
\* the children at even positions that start at or before pos, and
\* unfinished_dotted is returned true exactly when the last child is '.'.
C6_DottedNameResult ==
    (pc = "importer_returned" /\ HasDottedName(module[1]))
        => /\ ~import_ret.names_none
           /\ import_ret.names = DottedNames(module[1])
           /\ import_ret.unfinished_dotted = LastIsDot(module[1])

\* C6 as amended: the same, unless pos lies in the span of the 'import'
\* keyword of an import_name rule, where the result is (None, 0, False,
\* False); 'import os.' with the cursor at its end gives [os] and true.
C6_DottedNameResultOffKeyword ==
    (pc = "importer_returned" /\ HasDottedName(module[1]))
        => /\ IF CursorOnImport(module[1])
              THEN import_ret = NoCompletions
              ELSE /\ ~import_ret.names_none
                   /\ import_ret.names = DottedNames(module[1])
                   /\ import_ret.unfinished_dotted = LastIsDot(module[1])
           /\ (module[1] = ImportOsDot /\ pos = ImportOsDot.end_pos)
                 => /\ Values(import_ret.names) = <<"os">>
                    /\ import_ret.unfinished_dotted

C6_Witness ==
    /\ pc = "importer_returned"
    /\ module[1] = ImportOsDot
    /\ pos = ImportOsDot.end_pos
    /\ Values(import_ret.names) = <<"os">>
    /\ import_ret.unfinished_dotted

\* the statement check_error_statements hands on: the first one of an
\* import type with start_pos < pos <= end_pos; 0 if there is none
Selected ==
    LET fit == {i \in DOMAIN module :
                   /\ module[i].first_type \in {"import_from", "import_name"}
                   /\ StartsBefore(module[i])
                   /\ (pos = module[i].end_pos \/ PosLT(pos, module[i].end_pos))}
    IN  IF fit = {} THEN 0 ELSE Min(fit)

\* C7: check_error_statements returns (None, 0, False, False) when no
\* statement is selected, and when the selected statement has an
\* import_name rule whose 'import' keyword spans pos, whatever its other
\* rules hold.
C7_NoCompletions ==
    pc = "check_returned"
        => /\ Selected = 0 => import_ret = NoCompletions
           /\ (Selected # 0 /\ CursorOnImport(module[IF Selected = 0 THEN 1 ELSE Selected]))
                 => import_ret = NoCompletions

C7_Witness ==
    /\ pc = "check_returned"
    /\ Selected = 2
    /\ CursorOnImport(module[2])
    /\ HasDottedName(module[2])
    /\ LastIsDot(module[2])
    /\ import_ret = NoCompletions

-----------------------------------------------------------------------------
(* Properties of get_stack_at_position (SpecStack).                        *)

IsPrefix(s, t) == Len(s) <= Len(t) /\ SubSeq(t, 1, Len(s)) = s

\* the tokens before the first ENDMARKER that are no DEDENT, in order
ExpectedFeed(toks) ==
    LET first == Min({i \in DOMAIN toks : toks[i] = "ENDMARKER"})
    IN  SelectSeq(SubSeq(toks, 1, first - 1), LAMBDA t : t # "DEDENT")

\* C8: a call that ran the parser returns a stack snapshot, or fails with
\* an error that is passed on (a parser error here stands for
\* EndOfInputNotReached); it returns no normal value that is not a stack.
C8_StackOrError ==
    pc = "stack_returned"
        => outcome \in {"Stack", "ParseError", "OnErrorLeaf", "AttributeError"}

\* C9: the locating phase yields a unit to slice from or raises OnErrorLeaf,
\* and raises it exactly when the resolved unit is a string or an error
\* leaf; no answer of the module tree makes it fail otherwise.
C9_UnitOrOnErrorLeaf ==
    pc \in {"parsing", "stack_returned"}
        => /\ outcome # "AttributeError"
           /\ (outcome = "OnErrorLeaf") <=>
                  (Locate(loc).user_stmt.type \in {"string", "error_leaf"})

\* C10: the parser is fed the tokens before the first ENDMARKER that are no
\* DEDENT, in order, never the ENDMARKER; the snapshot is taken only when
\* all of them have been consumed.
C10_FedThenSnapshot ==
    (pc \in {"parsing", "stack_returned"} /\ tokens # << >>)
        => /\ IsPrefix(fed, ExpectedFeed(tokens))
           /\ outcome = "Stack" => (fed = ExpectedFeed(tokens) /\ snapshot = fed)
           /\ outcome # "Stack" => snapshot = << >>

C10_Witness ==
    /\ pc = "stack_returned"
    /\ outcome = "Stack"
    /\ \E i \in DOMAIN tokens : tokens[i] = "DEDENT"
    /\ Len(snapshot) >= 2

====
